---- MODULE Spec2Model ----
(***************************************************************************)
(* Model of the crypto portfolio backtest library: src/src/data_loader.py  *)
(* (compute_daily_returns, group_returns_by_month) and                     *)
(* src/src/portfolio_tools.py (the four weighting strategies,              *)
(* apply_weights, evaluate_portfolio).                                     *)
(*                                                                         *)
(* A float64 cell is a pair <<n, d>>: d > 0 is the exact rational n/d in   *)
(* lowest terms, <<0,0>> is NaN (pandas' missing value), <<1,0>> and       *)
(* <<-1,0>> are +inf and -inf.  Arithmetic follows IEEE-754 for the        *)
(* special values and is exact on the rationals.                           *)
(***************************************************************************)
EXTENDS Integers, Sequences, FiniteSets, TLC

VARIABLES pc, prices, returns, monthly_groups, prev_month_returns, quantile,
          weights, month_returns, portfolio_returns, freq, report, raised

vars == <<pc, prices, returns, monthly_groups, prev_month_returns, quantile,
          weights, month_returns, portfolio_returns, freq, report, raised>>

(***************************************************************************)
(* Bounds of the model.                                                    *)
(***************************************************************************)
MaxPriceRows == 3

MaxReturnRows == 3

MaxPeriodRows == 2

MaxSeriesLen == 3

MaxFreq == 2

SqrtScale == 12

(***************************************************************************)
(* float64 arithmetic.                                                     *)
(***************************************************************************)
NaN == <<0, 0>>

PosInf == <<1, 0>>

NegInf == <<-1, 0>>

Abs(n) == IF n < 0 THEN -n ELSE n

RECURSIVE GCD(_, _)
GCD(a, b) == IF b = 0 THEN a ELSE GCD(b, a % b)

Rat(n, d) ==
    LET s == IF d < 0 THEN -1 ELSE 1
        g == GCD(Abs(n), Abs(d))
    IN  <<(s * n) \div g, (s * d) \div g>>

Zero == <<0, 1>>

One == <<1, 1>>

IsNaN(x) == x = NaN

IsFinite(x) == x[2] > 0

Sign(x) == IF x[1] > 0 THEN 1 ELSE IF x[1] < 0 THEN -1 ELSE 0

Inf(s) == IF s > 0 THEN PosInf ELSE IF s < 0 THEN NegInf ELSE NaN

FNeg(x) == <<-x[1], x[2]>>

FAbs(x) == <<Abs(x[1]), x[2]>>

FAdd(x, y) ==
    IF IsNaN(x) \/ IsNaN(y) THEN NaN
    ELSE IF ~IsFinite(x) /\ ~IsFinite(y) THEN (IF x = y THEN x ELSE NaN)
    ELSE IF ~IsFinite(x) THEN x
    ELSE IF ~IsFinite(y) THEN y
    ELSE LET g == GCD(x[2], y[2])
         IN  Rat(x[1] * (y[2] \div g) + y[1] * (x[2] \div g), (x[2] \div g) * y[2])

FSub(x, y) == FAdd(x, FNeg(y))

FMul(x, y) ==
    IF IsNaN(x) \/ IsNaN(y) THEN NaN
    ELSE IF ~IsFinite(x) \/ ~IsFinite(y) THEN Inf(Sign(x) * Sign(y))
    ELSE LET g1 == GCD(Abs(x[1]), y[2])
             g2 == GCD(Abs(y[1]), x[2])
         IN  IF x[1] = 0 \/ y[1] = 0 THEN Zero
             ELSE <<(x[1] \div g1) * (y[1] \div g2), (x[2] \div g2) * (y[2] \div g1)>>

FDiv(x, y) ==
    IF IsNaN(x) \/ IsNaN(y) THEN NaN
    ELSE IF ~IsFinite(x) /\ ~IsFinite(y) THEN NaN
    ELSE IF ~IsFinite(x) THEN (IF Sign(y) < 0 THEN FNeg(x) ELSE x)
    ELSE IF ~IsFinite(y) THEN Zero
    ELSE IF y[1] = 0 THEN Inf(Sign(x))
    ELSE FMul(x, Rat(y[2], y[1]))

\* x < y on floats; every comparison with NaN is False
FLess(x, y) ==
    IF IsNaN(x) \/ IsNaN(y) THEN FALSE
    ELSE IF x = y THEN FALSE
    ELSE IF ~IsFinite(x) THEN x = NegInf
    ELSE IF ~IsFinite(y) THEN y = PosInf
    ELSE x[1] * y[2] < y[1] * x[2]

FLeq(x, y) == ~IsNaN(x) /\ ~IsNaN(y) /\ (x = y \/ FLess(x, y))

FGeq(x, y) == FLeq(y, x)

FromInt(n) == <<n, 1>>

RECURSIVE FPow(_, _)
FPow(x, k) == IF k = 0 THEN One ELSE FMul(x, FPow(x, k - 1))

(***************************************************************************)
(* Tables (pandas DataFrame): index is the sequence of row labels, columns *)
(* the set of column labels, rows[i] the cells of row i as a function of   *)
(* the column.                                                             *)
(***************************************************************************)
Table(idx, cols, rws) == [index |-> idx, columns |-> cols, rows |-> rws]

Assets == {"BTCUSDT", "ETHUSDT", "SOLUSDT"}

\* Timestamps <<year, month, day>> around a month end and a year end
Dates == <<
    <<2020, 12, 1>>, <<2020, 12, 31>>, <<2021, 1, 1>>, <<2021, 1, 31>>,
    <<2021, 2, 1>> >>

None == "None"

Range(f) == {f[i] : i \in DOMAIN f}

\* Python's None in a slot that otherwise holds a float
NoValue == <<>>

\* the positions 1..n that are in Keep, in ascending order
RECURSIVE SelectRows(_, _)
SelectRows(n, Keep) ==
    IF n = 0 THEN <<>>
    ELSE IF n \in Keep THEN Append(SelectRows(n - 1, Keep), n)
    ELSE SelectRows(n - 1, Keep)

(***************************************************************************)
(* data_loader.compute_daily_returns                                       *)
(***************************************************************************)
\* DataFrame.pct_change(fill_method=None): cell / previous row's cell - 1,
\* the first row all NaN
pct_change(df) ==
    Table(df.index, df.columns,
          [i \in 1..Len(df.rows) |->
              [a \in df.columns |->
                  IF i = 1 THEN NaN
                  ELSE FSub(FDiv(df.rows[i][a], df.rows[i - 1][a]), One)]])

\* DataFrame.dropna(how='all'): drop the rows whose cells are all NaN
dropna_rows_all(df) ==
    LET keep == SelectRows(Len(df.rows),
                           {i \in 1..Len(df.rows) :
                               \E a \in df.columns : ~IsNaN(df.rows[i][a])})
    IN  Table([k \in 1..Len(keep) |-> df.index[keep[k]]], df.columns,
              [k \in 1..Len(keep) |-> df.rows[keep[k]]])

compute_daily_returns(df) == dropna_rows_all(pct_change(df))

PriceVals == {NaN, Zero, One, FromInt(2)}

PriceColumns == {"BTCUSDT", "ETHUSDT"}

IsPriceTable(df) ==
    \E n \in 1..MaxPriceRows :
        \E rws \in [1..n -> [PriceColumns -> PriceVals]] :
            df = Table([i \in 1..n |-> Dates[i]], PriceColumns, rws)

InitReturns ==
    /\ pc = "prices"
    /\ IsPriceTable(prices)
    /\ returns = None
    /\ monthly_groups = None
    /\ prev_month_returns = None
    /\ quantile = None
    /\ weights = None
    /\ month_returns = None
    /\ portfolio_returns = None
    /\ freq = None
    /\ report = None
    /\ raised = None

ComputeDailyReturns ==
    /\ pc = "prices"
    /\ returns' = compute_daily_returns(prices)
    /\ pc' = "compute_daily_returns"
    /\ UNCHANGED <<prices, monthly_groups, prev_month_returns, quantile, weights,
                   month_returns, portfolio_returns, freq, report, raised>>

NextReturns == ComputeDailyReturns

SpecReturns == InitReturns /\ [][NextReturns]_vars

\* C6 (as claimed): a return cell holds price[t]/price[t-1] - 1 exactly where
\* both prices exist and the previous one is non-zero, and is missing (NaN) in
\* every other case, a zero previous price included
C6_ReturnOnlyWherePricesDefined ==
    pc = "compute_daily_returns" =>
        \A k \in 1..Len(returns.index) :
            \E i \in 2..Len(prices.index) :
                /\ prices.index[i] = returns.index[k]
                /\ \A a \in prices.columns :
                      LET cur  == prices.rows[i][a]
                          prev == prices.rows[i - 1][a]
                      IN  IF ~IsNaN(cur) /\ ~IsNaN(prev) /\ prev # Zero
                          THEN returns.rows[k][a] =
                                   Rat(cur[1] * prev[2] - prev[1] * cur[2],
                                       cur[2] * prev[1])
                          ELSE IsNaN(returns.rows[k][a])

(***************************************************************************)
(* data_loader.group_returns_by_month                                      *)
(***************************************************************************)
\* DatetimeIndex.to_period('M'): the <<year, month>> of a timestamp
to_period_M(ts) == <<ts[1], ts[2]>>

\* the order of pandas Periods
PeriodLess(p, q) == p[1] < q[1] \/ (p[1] = q[1] /\ p[2] < q[2])

\* str(Period) for a monthly period: 'YYYY-MM'
period_str(p) ==
    ToString(p[1]) \o "-" \o (IF p[2] < 10 THEN "0" ELSE "") \o ToString(p[2])

\* returns['month'] = returns.index.to_period('M'): the column is added, or
\* replaces a column of that name
with_month(df) ==
    Table(df.index, df.columns \cup {"month"},
          [i \in 1..Len(df.rows) |->
              [a \in df.columns \cup {"month"} |->
                  IF a = "month" THEN to_period_M(df.index[i]) ELSE df.rows[i][a]]])

\* the keys of a groupby, sorted ascending (sort=True is the default)
RECURSIVE SortedKeys(_)
SortedKeys(S) ==
    IF S = {} THEN <<>>
    ELSE LET m == CHOOSE x \in S : \A y \in S : ~PeriodLess(y, x)
         IN  <<m>> \o SortedKeys(S \ {m})

\* mutant: the groups come in order of first appearance (groupby sort=False)
RECURSIVE FirstSeen(_, _)
FirstSeen(df, n) ==
    IF n = 0 THEN <<>>
    ELSE LET front == FirstSeen(df, n - 1)
         IN  IF df.rows[n]["month"] \in Range(front) THEN front
             ELSE Append(front, df.rows[n]["month"])

groupby_keys_unsorted(df) == FirstSeen(df, Len(df.rows))

groupby_keys(df) == SortedKeys({df.rows[i]["month"] : i \in 1..Len(df.rows)})

\* the rows of one group, in the order of the frame
groupby_rows(df, key) ==
    SelectRows(Len(df.rows), {i \in 1..Len(df.rows) : df.rows[i]["month"] = key})

\* mutant: dropna(axis=1, how='all') keeps an asset with some value in the month
drop_month_dropna_all(df, at) ==
    LET cols == {a \in df.columns \ {"month"} :
                    \E k \in 1..Len(at) : ~IsNaN(df.rows[at[k]][a])}
    IN  Table([k \in 1..Len(at) |-> df.index[at[k]]], cols,
              [k \in 1..Len(at) |-> [a \in cols |-> df.rows[at[k]][a]]])

\* group.drop(columns='month').dropna(axis=1, how='any')
drop_month_dropna_any(df, at) ==
    LET cols == {a \in df.columns \ {"month"} :
                    \A k \in 1..Len(at) : ~IsNaN(df.rows[at[k]][a])}
    IN  Table([k \in 1..Len(at) |-> df.index[at[k]]], cols,
              [k \in 1..Len(at) |-> [a \in cols |-> df.rows[at[k]][a]]])

\* d[key] = value on a dict kept as its sequence of items in insertion order
DictSet(d, key, value) ==
    IF \E j \in 1..Len(d) : d[j].key = key
    THEN [j \in 1..Len(d) |-> IF d[j].key = key THEN [key |-> key, value |-> value]
                                                  ELSE d[j]]
    ELSE Append(d, [key |-> key, value |-> value])

RECURSIVE group_loop(_, _, _)
group_loop(df, keys, acc) ==
    IF keys = <<>> THEN acc
    ELSE group_loop(df, Tail(keys),
                    DictSet(acc, period_str(Head(keys)),
                            drop_month_dropna_any(df, groupby_rows(df, Head(keys)))))

group_returns_by_month(df) ==
    LET withm == with_month(df)
    IN  group_loop(withm, groupby_keys(withm), <<>>)

\* index values of a return table: distinct timestamps, in any order
Indexes(n) == {ix \in [1..n -> Range(Dates)] : \A i, j \in 1..n : i # j => ix[i] # ix[j]}

ReturnVals == {NaN, <<1, 10>>}

IsReturnTable(df) ==
    \E n \in 0..MaxReturnRows :
        \E ix \in Indexes(n), rws \in [1..n -> [PriceColumns -> ReturnVals]] :
            df = Table(ix, PriceColumns, rws)

InitGroups ==
    /\ pc = "returns"
    /\ prices = None
    /\ IsReturnTable(returns)
    /\ monthly_groups = None
    /\ prev_month_returns = None
    /\ quantile = None
    /\ weights = None
    /\ month_returns = None
    /\ portfolio_returns = None
    /\ freq = None
    /\ report = None
    /\ raised = None

GroupReturnsByMonth ==
    /\ pc = "returns"
    /\ monthly_groups' = group_returns_by_month(returns)
    /\ pc' = "group_returns_by_month"
    /\ UNCHANGED <<prices, returns, prev_month_returns, quantile, weights,
                   month_returns, portfolio_returns, freq, report, raised>>

NextGroups == GroupReturnsByMonth

SpecGroups == InitGroups /\ [][NextGroups]_vars

\* the calendar month a 'YYYY-MM' label names
LabelMonth(label) ==
    CHOOSE p \in {<<d[1], d[2]>> : d \in Range(Dates)} : period_str(p) = label

\* C4: the periods partition the date index exactly (every date in exactly one
\* period table, nothing added), every date of a period lies in the calendar
\* month of the period's label, and the periods come in ascending calendar order
C4_PeriodsPartitionIndex ==
    pc = "group_returns_by_month" =>
        /\ \A i \in 1..Len(returns.index) :
              Cardinality({<<j, k>> \in
                    UNION {{j} \X (1..Len(monthly_groups[j].value.index)) :
                              j \in 1..Len(monthly_groups)} :
                    monthly_groups[j].value.index[k] = returns.index[i]}) = 1
        /\ UNION {Range(monthly_groups[j].value.index) : j \in 1..Len(monthly_groups)}
              = Range(returns.index)
        /\ \A j \in 1..Len(monthly_groups) :
              \A k \in 1..Len(monthly_groups[j].value.index) :
                  LET ts == monthly_groups[j].value.index[k]
                  IN  LabelMonth(monthly_groups[j].key) = <<ts[1], ts[2]>>
        /\ \A j \in 1..Len(monthly_groups) - 1 :
              LET p == LabelMonth(monthly_groups[j].key)
                  q == LabelMonth(monthly_groups[j + 1].key)
              IN  p[1] < q[1] \/ (p[1] = q[1] /\ p[2] < q[2])

\* C4 witness: an index that is not in calendar order and spans a year end is
\* split into at least two periods
C4_Witness ==
    /\ pc = "group_returns_by_month"
    /\ Len(returns.index) = 3
    /\ returns.index[1] = <<2021, 1, 1>>
    /\ returns.index[2] = <<2020, 12, 1>>
    /\ returns.index[3] = <<2021, 1, 31>>
    /\ Len(monthly_groups) = 2
    /\ Len(monthly_groups[2].value.index) = 2

\* the rows of the return table that fall in the month of a label
RowsOfLabel(label) ==
    {i \in 1..Len(returns.index) :
        <<returns.index[i][1], returns.index[i][2]>> = LabelMonth(label)}

\* C5: a period table's columns are exactly the assets with no missing value on
\* any date of the period, its cells are the return table's cells (none of them
\* missing), and every month that owns a date has a table, a zero-column one
\* when no asset is complete
C5_CompleteAssetsOnly ==
    pc = "group_returns_by_month" =>
        /\ \A j \in 1..Len(monthly_groups) :
              LET g == monthly_groups[j].value
              IN  /\ g.columns = {a \in returns.columns :
                                     \A i \in RowsOfLabel(monthly_groups[j].key) :
                                         returns.rows[i][a] # NaN}
                  /\ \A k \in 1..Len(g.index) : \A a \in g.columns :
                        /\ g.rows[k][a] # NaN
                        /\ \E i \in 1..Len(returns.index) :
                              /\ returns.index[i] = g.index[k]
                              /\ returns.rows[i][a] = g.rows[k][a]
        /\ \A i \in 1..Len(returns.index) :
              \E j \in 1..Len(monthly_groups) :
                  LabelMonth(monthly_groups[j].key)
                      = <<returns.index[i][1], returns.index[i][2]>>

\* C5 witness: a month in which every asset misses a value is kept as a
\* zero-column table, next to a month with a complete asset
C5_Witness ==
    /\ pc = "group_returns_by_month"
    /\ Len(monthly_groups) = 2
    /\ monthly_groups[1].value.columns = {}
    /\ Len(monthly_groups[1].value.index) = 2
    /\ monthly_groups[2].value.columns = {"BTCUSDT"}

(***************************************************************************)
(* Series reductions (pandas skips NaN: skipna=True)                       *)
(***************************************************************************)
\* the non-NaN cells of column a, as a sequence
column_values(df, a) ==
    LET at == SelectRows(Len(df.rows), {i \in 1..Len(df.rows) : ~IsNaN(df.rows[i][a])})
    IN  [k \in 1..Len(at) |-> df.rows[at[k]][a]]

RECURSIVE SeqSum(_)
SeqSum(xs) == IF xs = <<>> THEN Zero ELSE FAdd(Head(xs), SeqSum(Tail(xs)))

RECURSIVE SeqProd(_)
SeqProd(xs) == IF xs = <<>> THEN One ELSE FMul(Head(xs), SeqProd(Tail(xs)))

\* Series.sum() over the labels S of a series: NaN entries are skipped
RECURSIVE series_sum(_, _)
series_sum(ser, S) ==
    IF S = {} THEN Zero
    ELSE LET a == CHOOSE x \in S : TRUE
         IN  FAdd(IF IsNaN(ser[a]) THEN Zero ELSE ser[a], series_sum(ser, S \ {a}))

\* floor of the square root of a natural number (Newton's iteration from x)
RECURSIVE ISqrtFrom(_, _)
ISqrtFrom(n, x) ==
    LET y == (x + n \div x) \div 2
    IN  IF y >= x THEN x ELSE ISqrtFrom(n, y)

ISqrt(n) == IF n = 0 THEN 0 ELSE ISqrtFrom(n, n)

\* float square root: sqrt(n/d) = sqrt(n*d)/d, the root of the integer kept to
\* 1/SqrtScale; exact when that root is a multiple of 1/SqrtScale, and positive
\* whenever x is
FSqrt(x) ==
    IF IsNaN(x) \/ Sign(x) < 0 THEN NaN
    ELSE IF ~IsFinite(x) THEN x
    ELSE Rat(ISqrt(x[1] * x[2] * SqrtScale * SqrtScale), x[2] * SqrtScale)

\* sample variance (ddof=1) of the non-NaN values; NaN with fewer than two
variance(xs) ==
    IF Len(xs) < 2 THEN NaN
    ELSE LET mean == FDiv(SeqSum(xs), FromInt(Len(xs)))
             sq   == [k \in 1..Len(xs) |-> FMul(FSub(xs[k], mean), FSub(xs[k], mean))]
         IN  FDiv(SeqSum(sq), FromInt(Len(xs) - 1))

\* DataFrame.std() / Series.std()
std(xs) == FSqrt(variance(xs))

(***************************************************************************)
(* portfolio_tools: the weighting strategies.  A call returns              *)
(* [raised |-> exception name or None, value |-> the weight Series].       *)
(***************************************************************************)
Returned(v) == [raised |-> None, value |-> v]

Raised(e) == [raised |-> e, value |-> None]

compute_equal_weights(df) ==
    LET n_assets == Cardinality(df.columns)
    IN  IF n_assets = 0 THEN Raised("ZeroDivisionError")
        ELSE Returned([a \in df.columns |-> Rat(1, n_assets)])

compute_vol_scaled_weights(df) ==
    LET vol      == [a \in df.columns |-> std(column_values(df, a))]
        replaced == [a \in df.columns |-> IF vol[a] = Zero THEN NaN ELSE vol[a]]
        inv_vol  == [a \in df.columns |-> FDiv(One, replaced[a])]
        total    == series_sum(inv_vol, df.columns)
    IN  Returned([a \in df.columns |-> FDiv(inv_vol[a], total)])

\* (1 + prev_month_returns).prod() - 1, per column
compounded_return(df) ==
    [a \in df.columns |->
        LET xs == column_values(df, a)
        IN  FSub(SeqProd([k \in 1..Len(xs) |-> FAdd(One, xs[k])]), One)]

\* the non-NaN values of a series, sorted ascending (with repetitions)
RECURSIVE sorted_values(_, _)
sorted_values(ser, S) ==
    IF S = {} THEN <<>>
    ELSE LET a == CHOOSE x \in S : \A y \in S : ~FLess(ser[y], ser[x])
         IN  <<ser[a]>> \o sorted_values(ser, S \ {a})

\* Series.quantile(p), interpolation='linear'; NaN for an empty series
series_quantile(ser, p) ==
    LET v    == sorted_values(ser, {a \in DOMAIN ser : ~IsNaN(ser[a])})
        n    == Len(v)
        pos  == FMul(FromInt(n - 1), p)
        lo   == pos[1] \div pos[2]
        frac == FSub(pos, FromInt(lo))
    IN  IF n = 0 THEN NaN
        ELSE IF lo + 1 >= n THEN v[n]
        ELSE FAdd(v[lo + 1], FMul(frac, FSub(v[lo + 2], v[lo + 1])))

\* mutant: the boundary is exclusive, assets tied at the cutoff are left out
compute_momentum_weights_exclusive(df, top_quantile) ==
    LET momentum == compounded_return(df)
        cutoff   == series_quantile(momentum, FSub(One, top_quantile))
        winners  == {a \in df.columns : FLess(cutoff, momentum[a])}
    IN  Returned([a \in df.columns |->
            IF Cardinality(winners) > 0 /\ a \in winners
            THEN Rat(1, Cardinality(winners)) ELSE Zero])

compute_momentum_weights(df, top_quantile) ==
    LET momentum == compounded_return(df)
        cutoff   == series_quantile(momentum, FSub(One, top_quantile))
        winners  == {a \in df.columns : FGeq(momentum[a], cutoff)}
    IN  Returned([a \in df.columns |->
            IF Cardinality(winners) > 0 /\ a \in winners
            THEN Rat(1, Cardinality(winners)) ELSE Zero])

compute_reversal_weights(df, bottom_quantile) ==
    LET momentum == compounded_return(df)
        cutoff   == series_quantile(momentum, bottom_quantile)
        losers   == {a \in df.columns : FLeq(momentum[a], cutoff)}
    IN  Returned([a \in df.columns |->
            IF Cardinality(losers) > 0 /\ a \in losers
            THEN Rat(1, Cardinality(losers)) ELSE Zero])

\* one period's table: no missing cell, at least one date, any set of assets
PeriodVals == {<<-1, 2>>, Zero, One}

IsPeriodTable(df) ==
    \E n \in 1..MaxPeriodRows :
        \E cols \in SUBSET PriceColumns :
            \E rws \in [1..n -> [cols -> PeriodVals]] :
                df = Table([i \in 1..n |-> Dates[i]], cols, rws)

\* ten assets with one-day returns that are pairwise distinct (t = 1) or tied
\* in pairs (t = 2)
TenAssets == <<"A0", "A1", "A2", "A3", "A4", "A5", "A6", "A7", "A8", "A9">>

IsTenAssetTable(df) ==
    \E m \in 1..10 : \E sh \in 0..10 : \E t \in 1..2 :
        df = Table(<<Dates[1]>>, Range(TenAssets),
                   <<[a \in Range(TenAssets) |->
                        LET i == CHOOSE k \in 1..10 : TenAssets[k] = a
                        IN  Rat((((i * m + sh) % 11) \div t) - 2, 10)]>>)

QuantileVals == {<<1, 5>>, <<1, 2>>, One}

InitWeights ==
    /\ pc = "period"
    /\ prices = None
    /\ returns = None
    /\ monthly_groups = None
    /\ IsPeriodTable(prev_month_returns) \/ IsTenAssetTable(prev_month_returns)
    /\ quantile = None
    /\ weights = None
    /\ month_returns = None
    /\ portfolio_returns = None
    /\ freq = None
    /\ report = None
    /\ raised = None

ComputeEqualWeights ==
    /\ pc = "period"
    /\ pc' = "compute_equal_weights"
    /\ weights' = compute_equal_weights(prev_month_returns).value
    /\ raised' = compute_equal_weights(prev_month_returns).raised
    /\ UNCHANGED <<prices, returns, monthly_groups, prev_month_returns, quantile,
                   month_returns, portfolio_returns, freq, report>>

ComputeVolScaledWeights ==
    /\ pc = "period"
    /\ pc' = "compute_vol_scaled_weights"
    /\ weights' = compute_vol_scaled_weights(prev_month_returns).value
    /\ raised' = compute_vol_scaled_weights(prev_month_returns).raised
    /\ UNCHANGED <<prices, returns, monthly_groups, prev_month_returns, quantile,
                   month_returns, portfolio_returns, freq, report>>

ComputeMomentumWeights ==
    /\ pc = "period"
    /\ \E top_quantile \in QuantileVals :
          /\ quantile' = top_quantile
          /\ weights' = compute_momentum_weights(prev_month_returns, top_quantile).value
          /\ raised' = compute_momentum_weights(prev_month_returns, top_quantile).raised
    /\ pc' = "compute_momentum_weights"
    /\ UNCHANGED <<prices, returns, monthly_groups, prev_month_returns,
                   month_returns, portfolio_returns, freq, report>>

ComputeReversalWeights ==
    /\ pc = "period"
    /\ \E bottom_quantile \in QuantileVals :
          /\ quantile' = bottom_quantile
          /\ weights' = compute_reversal_weights(prev_month_returns, bottom_quantile).value
          /\ raised' = compute_reversal_weights(prev_month_returns, bottom_quantile).raised
    /\ pc' = "compute_reversal_weights"
    /\ UNCHANGED <<prices, returns, monthly_groups, prev_month_returns,
                   month_returns, portfolio_returns, freq, report>>

NextWeights ==
    \/ ComputeEqualWeights
    \/ ComputeVolScaledWeights
    \/ ComputeMomentumWeights
    \/ ComputeReversalWeights

SpecWeights == InitWeights /\ [][NextWeights]_vars

Strategies == {"compute_equal_weights", "compute_vol_scaled_weights",
               "compute_momentum_weights", "compute_reversal_weights"}

\* the assets whose return series varies over the period (a defined, non-zero
\* volatility): at least two dates and two different returns
Varying(df) ==
    {a \in df.columns : \E i, j \in 1..Len(df.rows) : df.rows[i][a] # df.rows[j][a]}

\* the assets that qualify for a weight under the strategy that ran
Qualifying ==
    IF pc = "compute_vol_scaled_weights" THEN Varying(prev_month_returns)
    ELSE prev_month_returns.columns

\* C1 (as claimed): on a table with at least one column every strategy returns
\* weights over a subset of the columns that sum to 1 when an asset qualifies
\* (pandas' sum, which skips NaN) and the all-zero vector over the columns when
\* none does
C1_WeightsSumToOneOrAllZero ==
    (pc \in Strategies /\ prev_month_returns.columns # {}) =>
        /\ raised = None
        /\ DOMAIN weights \subseteq prev_month_returns.columns
        /\ IF Qualifying # {}
           THEN series_sum(weights, DOMAIN weights) = One
           ELSE /\ DOMAIN weights = prev_month_returns.columns
                /\ \A a \in DOMAIN weights : weights[a] = Zero

\* 1 / volatility of a column
InverseVol(df, a) == FDiv(One, std(column_values(df, a)))

\* C2 (as claimed): an asset with zero or undefined volatility gets weight
\* exactly 0 and is left out of the denominator, every other asset gets
\* (1/vol_a) / sum of (1/vol_b) over the other assets, and no weight is
\* infinite or undefined
C2_ZeroVolatilityGetsZeroWeight ==
    pc = "compute_vol_scaled_weights" =>
        LET df    == prev_month_returns
            denom == series_sum([b \in Varying(df) |-> InverseVol(df, b)], Varying(df))
        IN  \A a \in df.columns :
                /\ IsFinite(weights[a])
                /\ IF a \in Varying(df)
                   THEN weights[a] = FDiv(InverseVol(df, a), denom)
                   ELSE weights[a] = Zero

\* C7 (as claimed): a strategy fails with InsufficientDataError exactly when its
\* table has no column, and otherwise returns a weight vector
C7_InsufficientDataIffNoColumns ==
    pc \in Strategies =>
        /\ raised = "InsufficientDataError" <=> prev_month_returns.columns = {}
        /\ prev_month_returns.columns # {} =>
              raised = None /\ DOMAIN weights = prev_month_returns.columns

\* compounded return of asset a over the first i dates of a complete table
RECURSIVE Growth(_, _, _)
Growth(df, a, i) ==
    IF i = 0 THEN One ELSE FMul(Growth(df, a, i - 1), FAdd(One, df.rows[i][a]))

Momentum(df) == [a \in df.columns |-> FSub(Growth(df, a, Len(df.rows)), One)]

NumBelow(mom, x) == Cardinality({b \in DOMAIN mom : FLess(mom[b], x)})

NumAtMost(mom, x) == Cardinality({b \in DOMAIN mom : FLeq(mom[b], x)})

\* the k-th smallest value (k = 0 for the smallest), by counting
OrderStat(mom, k) ==
    CHOOSE x \in Range(mom) : NumBelow(mom, x) <= k /\ k < NumAtMost(mom, x)

\* the p-quantile with linear interpolation between the two nearest ranks
Cutoff(mom, p) ==
    LET n  == Cardinality(DOMAIN mom)
        hn == (n - 1) * p[1]
        lo == hn \div p[2]
    IN  IF lo >= n - 1 THEN OrderStat(mom, n - 1)
        ELSE FAdd(OrderStat(mom, lo),
                  FMul(Rat(hn - lo * p[2], p[2]),
                       FSub(OrderStat(mom, lo + 1), OrderStat(mom, lo))))

EqualWeightOn(S) ==
    /\ S # {}
    /\ raised = None
    /\ DOMAIN weights = prev_month_returns.columns
    /\ \A a \in DOMAIN weights :
          weights[a] = IF a \in S THEN Rat(1, Cardinality(S)) ELSE Zero

Distinct(mom) == \A a, b \in DOMAIN mom : a # b => mom[a] # mom[b]

\* C8: Momentum selects exactly the assets at or above the (1 - q)-quantile
\* cutoff, ties at the cutoff included, and weights the k selected 1/k and the
\* rest 0; Reversal does so for the assets at or below the q-quantile cutoff;
\* with 10 distinct compounded returns and q = 0.2 Momentum holds the 2 best
\* at 0.5 each and Reversal the 2 worst
C8_QuantileSelection ==
    LET df  == prev_month_returns
        mom == Momentum(df)
        hi  == Cutoff(mom, FSub(One, quantile))
        lo  == Cutoff(mom, quantile)
        ten == Cardinality(df.columns) = 10 /\ Distinct(mom) /\ quantile = <<1, 5>>
    IN  /\ (pc = "compute_momentum_weights" /\ df.columns # {}) =>
              /\ EqualWeightOn({a \in df.columns : FGeq(mom[a], hi)})
              /\ ten =>
                     /\ {a \in df.columns : weights[a] = <<1, 2>>}
                            = {a \in df.columns : NumBelow(mom, mom[a]) >= 8}
                     /\ Cardinality({a \in df.columns : weights[a] = Zero}) = 8
        /\ (pc = "compute_reversal_weights" /\ df.columns # {}) =>
              /\ EqualWeightOn({a \in df.columns : FLeq(mom[a], lo)})
              /\ ten =>
                     /\ {a \in df.columns : weights[a] = <<1, 2>>}
                            = {a \in df.columns : NumBelow(mom, mom[a]) <= 1}
                     /\ Cardinality({a \in df.columns : weights[a] = Zero}) = 8

\* C8 witness: Momentum ran with q = 0.2 on ten assets with distinct
\* compounded returns and holds two of them at 1/2
C8_Witness ==
    /\ pc = "compute_momentum_weights"
    /\ quantile = <<1, 5>>
    /\ Cardinality(prev_month_returns.columns) = 10
    /\ Distinct(Momentum(prev_month_returns))
    /\ Cardinality({a \in DOMAIN weights : weights[a] = <<1, 2>>}) = 2

\* ties at the cutoff select more than q * N assets: three of ten under q = 0.2
C8_TieWitness ==
    /\ pc = "compute_momentum_weights"
    /\ quantile = <<1, 5>>
    /\ Cardinality(prev_month_returns.columns) = 10
    /\ Cardinality({a \in DOMAIN weights : weights[a] = <<1, 3>>}) = 3

(***************************************************************************)
(* portfolio_tools.apply_weights.  A Series over dates is                  *)
(* [index |-> the dates, values |-> the values in that order].             *)
(***************************************************************************)
Series(idx, vals) == [index |-> idx, values |-> vals]

\* weights.reindex(columns): the labels become the columns, NaN where absent
reindex(ser, cols) == [a \in cols |-> IF a \in DOMAIN ser THEN ser[a] ELSE NaN]

\* Series.fillna(0)
fillna0(ser) == [a \in DOMAIN ser |-> IF IsNaN(ser[a]) THEN Zero ELSE ser[a]]

\* sum over the labels S of row[a] * w[a]; NaN is not skipped (numpy dot)
RECURSIVE dot_row(_, _, _)
dot_row(row, w, S) ==
    IF S = {} THEN Zero
    ELSE LET a == CHOOSE x \in S : TRUE
         IN  FAdd(FMul(row[a], w[a]), dot_row(row, w, S \ {a}))

\* mutant: the weights are reindexed but their missing entries are not filled
apply_weights_nofill(df, w) ==
    LET aligned == reindex(w, df.columns)
    IN  Series(df.index, [i \in 1..Len(df.rows) |-> dot_row(df.rows[i], aligned, df.columns)])

apply_weights(df, w) ==
    LET aligned == fillna0(reindex(w, df.columns))
    IN  Series(df.index, [i \in 1..Len(df.rows) |-> dot_row(df.rows[i], aligned, df.columns)])

WeightVals == {NaN, <<1, 2>>, One}

MonthVals == {<<-1, 2>>, One}

IsMonthTable(df) ==
    \E n \in 1..MaxPeriodRows :
        \E cols \in SUBSET Assets :
            \E rws \in [1..n -> [cols -> MonthVals]] :
                df = Table([i \in 1..n |-> Dates[i]], cols, rws)

InitApply ==
    /\ pc = "weights"
    /\ prices = None
    /\ returns = None
    /\ monthly_groups = None
    /\ prev_month_returns = None
    /\ quantile = None
    /\ \E S \in SUBSET Assets : weights \in [S -> WeightVals]
    /\ IsMonthTable(month_returns)
    /\ portfolio_returns = None
    /\ freq = None
    /\ report = None
    /\ raised = None

ApplyWeights ==
    /\ pc = "weights"
    /\ portfolio_returns' = apply_weights(month_returns, weights)
    /\ raised' = None
    /\ pc' = "apply_weights"
    /\ UNCHANGED <<prices, returns, monthly_groups, prev_month_returns, quantile,
                   weights, month_returns, freq, report>>

NextApply == ApplyWeights

SpecApply == InitApply /\ [][NextApply]_vars

\* the assets that are a column of the table and carry a defined weight
Held == {a \in month_returns.columns \cap DOMAIN weights : weights[a] # NaN}

RECURSIVE WeightedSum(_, _)
WeightedSum(i, S) ==
    IF S = {} THEN Zero
    ELSE LET a == CHOOSE x \in S : TRUE
         IN  FAdd(WeightedSum(i, S \ {a}), FMul(weights[a], month_returns.rows[i][a]))

\* C3: apply_weights never fails on a mismatch of assets: the result has exactly
\* the table's dates, and on each date it is the sum of return * weight over the
\* table's columns, a column without a (defined) weight counting 0 and a
\* weighted asset that is no column counting nothing
C3_ApplyWeightsAligns ==
    pc = "apply_weights" =>
        /\ raised = None
        /\ portfolio_returns.index = month_returns.index
        /\ Len(portfolio_returns.values) = Len(month_returns.rows)
        /\ \A i \in 1..Len(month_returns.rows) :
              portfolio_returns.values[i] = WeightedSum(i, Held)

\* C3 witness: the table has a column the weights lack, the weights name an
\* asset the table lacks and hold a NaN, and the result is a defined non-zero
\* return
C3_Witness ==
    /\ pc = "apply_weights"
    /\ month_returns.columns = {"BTCUSDT", "ETHUSDT"}
    /\ DOMAIN weights = {"ETHUSDT", "SOLUSDT"}
    /\ weights["SOLUSDT"] = NaN
    /\ weights["ETHUSDT"] = <<1, 2>>
    /\ Len(portfolio_returns.values) = 2
    /\ portfolio_returns.values[1] = <<1, 2>>
    /\ portfolio_returns.values[2] = <<-1, 4>>

(***************************************************************************)
(* portfolio_tools.evaluate_portfolio                                      *)
(***************************************************************************)
\* Series.cumprod()
RECURSIVE cumprod(_)
cumprod(xs) ==
    IF xs = <<>> THEN <<>>
    ELSE LET front == cumprod(SubSeq(xs, 1, Len(xs) - 1))
         IN  Append(front, IF front = <<>> THEN xs[Len(xs)]
                           ELSE FMul(front[Len(front)], xs[Len(xs)]))

\* Series.cummax()
RECURSIVE cummax(_)
cummax(xs) ==
    IF xs = <<>> THEN <<>>
    ELSE LET front == cummax(SubSeq(xs, 1, Len(xs) - 1))
         IN  Append(front, IF front = <<>> \/ FLess(front[Len(front)], xs[Len(xs)])
                           THEN xs[Len(xs)] ELSE front[Len(front)])

\* mutant: the running maximum starts from the initial wealth of 1
cummax_from_one(xs) ==
    LET m == cummax(xs)
    IN  [t \in 1..Len(xs) |-> IF FLess(m[t], One) THEN One ELSE m[t]]

running_max(wealth) == cummax(wealth)

\* Series.min(): the smallest non-NaN value, NaN when there is none
series_min(xs) ==
    LET S == {t \in 1..Len(xs) : ~IsNaN(xs[t])}
    IN  IF S = {} THEN NaN
        ELSE xs[CHOOSE t \in S : \A u \in S : ~FLess(xs[u], xs[t])]

\* Series.mean(): NaN for an empty series
series_mean(xs) == IF Len(xs) = 0 THEN NaN ELSE FDiv(SeqSum(xs), FromInt(Len(xs)))

evaluate_portfolio(ser, fr) ==
    LET xs                == ser.values
        growth            == [t \in 1..Len(xs) |-> FAdd(One, xs[t])]
        cumulative_return == FSub(SeqProd(growth), One)
        annualized_return == FSub(FPow(FAdd(One, series_mean(xs)), fr), One)
        annualized_vol    == FMul(std(xs), FSqrt(FromInt(fr)))
        sharpe            == IF FLess(Zero, annualized_vol)
                             THEN FDiv(annualized_return, annualized_vol) ELSE Zero
        wealth            == cumprod(growth)
        peak              == running_max(wealth)
        drawdown          == [t \in 1..Len(xs) |->
                                 FDiv(FSub(wealth[t], peak[t]), peak[t])]
        max_dd            == series_min(drawdown)
        calmar            == IF FLess(max_dd, Zero)
                             THEN FDiv(annualized_return, FAbs(max_dd)) ELSE NoValue
    IN  [cumulative_return     |-> cumulative_return,
         annualized_return     |-> annualized_return,
         annualized_volatility |-> annualized_vol,
         sharpe_ratio          |-> sharpe,
         max_drawdown          |-> max_dd,
         calmar_ratio          |-> calmar]

SeriesVals == {<<-1, 1>>, <<-1, 2>>, <<-1, 10>>, Zero, <<1, 2>>}

InitEvaluate ==
    /\ pc = "portfolio"
    /\ prices = None
    /\ returns = None
    /\ monthly_groups = None
    /\ prev_month_returns = None
    /\ quantile = None
    /\ weights = None
    /\ month_returns = None
    /\ \E n \in 0..MaxSeriesLen :
          \E vals \in [1..n -> SeriesVals] :
              portfolio_returns = Series([t \in 1..n |-> Dates[t]], vals)
    /\ freq \in 1..MaxFreq
    /\ report = None
    /\ raised = None

EvaluatePortfolio ==
    /\ pc = "portfolio"
    /\ report' = evaluate_portfolio(portfolio_returns, freq)
    /\ raised' = None
    /\ pc' = "evaluate_portfolio"
    /\ UNCHANGED <<prices, returns, monthly_groups, prev_month_returns, quantile,
                   weights, month_returns, portfolio_returns, freq>>

NextEvaluate == EvaluatePortfolio

SpecEvaluate == InitEvaluate /\ [][NextEvaluate]_vars

\* wealth after t days: the running product of (1 + r_s)
RECURSIVE Wealth(_)
Wealth(t) ==
    IF t = 0 THEN One
    ELSE FMul(Wealth(t - 1), FAdd(One, portfolio_returns.values[t]))

\* the largest wealth of days 1..t
Peak(t) ==
    CHOOSE w \in {Wealth(s) : s \in 1..t} : \A s \in 1..t : FLeq(Wealth(s), w)

Drawdown(t) == FDiv(FSub(Wealth(t), Peak(t)), Peak(t))

\* min over t of the drawdown, undefined (NaN) when no drawdown is defined
MinDrawdown ==
    LET n == Len(portfolio_returns.values)
        S == {Drawdown(t) : t \in 1..n} \ {NaN}
    IN  IF S = {} THEN NaN ELSE CHOOSE d \in S : \A e \in S : FLeq(d, e)

NeverBelowPeak == \A t \in 1..Len(portfolio_returns.values) : Wealth(t) = Peak(t)

\* the series is a single -10% day at position k among zero returns
SingleLossAt(k) ==
    /\ k \in 1..Len(portfolio_returns.values)
    /\ \A t \in 1..Len(portfolio_returns.values) :
          portfolio_returns.values[t] = IF t = k THEN <<-1, 10>> ELSE Zero

CalmarRule ==
    report.calmar_ratio =
        IF FLess(report.max_drawdown, Zero)
        THEN FDiv(report.annualized_return, FAbs(report.max_drawdown))
        ELSE NoValue

C10_EmptySeriesRaises ==
    (pc = "evaluate_portfolio" /\ Len(portfolio_returns.values) = 0) =>
        raised = "InsufficientDataError"

====
